---- MODULE Spec2Model ----
(***************************************************************************)
(* Rust7 S7 client (src/src/client.rs): the session S7Client, its          *)
(* handshake connect_tsap, disconnect, and the chunked read_area /         *)
(* write_area engines with their convenience forms, run against a peer     *)
(* that is either a PLC holding one data block or an arbitrary mock.       *)
(*                                                                         *)
(* One public call is in progress at a time (pc # "idle"); its steps are   *)
(* the blocking socket operations of the code, in the code's order.        *)
(***************************************************************************)
EXTENDS Integers, Sequences, FiniteSets, TLC

(* ------------------------------------------------------------------ *)
(* Program constants (client.rs lines 13-59)                           *)
(* ------------------------------------------------------------------ *)
CT_PG == 1
S7_AREA_MK == 131
S7_AREA_DB == 132
S7_WL_BIT == 1
S7_WL_BYTE == 2
TS_RES_BIT == 3
TS_RES_BYTE == 4
TPKT_ISO_LEN == 7
PDU_LEN_REQ == 480
ISO_CR_LEN == 22
ISO_CONN_REQ == 224
ISO_CONN_OK == 208
ISO_PN_REQ_LEN == 25
ISO_PN_RES_LEN == 27
ISO_ID == 3
S7_ID == 50
READ_REQ_LEN == 31
READ_RES_LEN == 18
WRITE_RES_LEN == 15
EOT == 128
RW_RES_OFFSET == 14
RES_SUCCESS == 255
RES_INVALID_ADDRESS == 5
RES_NOT_FOUND == 10
U16_MAX == 65535

(* ------------------------------------------------------------------ *)
(* Bounds of the model                                                 *)
(* ------------------------------------------------------------------ *)
\* Size in bytes of the data block the PLC holds.
AreaSize == 3
\* Iterations of a chunk loop that makes no progress that are explored.
MaxSpin == 3

(* ------------------------------------------------------------------ *)
(* Macros hi_part!, lo_part!, make_u16! and fixed-width arithmetic     *)
(* ------------------------------------------------------------------ *)
hi_part(x) == (x \div 256) % 256

lo_part(x) == x % 256

make_u16(hi, lo) == hi * 256 + lo

\* A u16 result: the value, and whether the operation overflowed.  An
\* overflow panics in a build with overflow checks and wraps otherwise.
U16(x) == [val |-> x % 65536, ovf |-> (x < 0 \/ x > U16_MAX)]

Min(a, b) == IF a < b THEN a ELSE b

\* n bytes all equal to v
Fill(n, v) == [i \in 1..n |-> v]

\* the bytes s[from+1 .. from+n] (0-based offset from, as a Rust slice)
Slice(s, from, n) == [i \in 1..n |-> s[from + i]]

\* byte k of a telegram, k counted from 0 as in the source
At(s, k) == s[k + 1]

(* ------------------------------------------------------------------ *)
(* Telegrams the client builds                                         *)
(* ------------------------------------------------------------------ *)
\* iso_cr, connect_tsap
IsoCr(local_tsap, remote_tsap) ==
    << ISO_ID, 0, hi_part(ISO_CR_LEN), lo_part(ISO_CR_LEN),
       17, ISO_CONN_REQ, 0, 0, 0, 1, 0, 192, 1, 10,
       193, 2, hi_part(local_tsap), lo_part(local_tsap),
       194, 2, hi_part(remote_tsap), lo_part(remote_tsap) >>

\* s7_pn, connect_tsap
S7Pn ==
    << ISO_ID, 0, 0, 25, 2, 240, 128,
       S7_ID, 1, 0, 0, 4, 0, 0, 8, 0,
       0, 240, 0, 0, 1, 0, 1,
       hi_part(PDU_LEN_REQ), lo_part(PDU_LEN_REQ) >>

\* the 24-bit address of a request: start for BIT, start << 3 otherwise
WireAddress(wl, start) == IF wl = S7_WL_BIT THEN start ELSE start * 8

\* request, read_area (with bytes 28..30 patched)
ReadRequest(wl, csize, db, ar, start) ==
    LET address == WireAddress(wl, start) IN
    << ISO_ID, 0, 0, 31, 2, 240, 128,
       S7_ID, 1, 0, 0, 5, 0, 0, 14, 0, 0, 4, 1, 18, 10, 16,
       wl, hi_part(csize), lo_part(csize), hi_part(db), lo_part(db), ar,
       (address \div 65536) % 256, (address \div 256) % 256, address % 256 >>

\* request, write_area (header, payload appended, length and address patched)
WriteRequest(wl, csize, db, ar, start, chunk) ==
    LET address == WireAddress(wl, start)
        transport == IF wl = S7_WL_BIT THEN TS_RES_BIT ELSE TS_RES_BYTE
        bits_payload == IF wl = S7_WL_BIT THEN 1 ELSE (csize * 8) % 65536
        total_len == 35 + Len(chunk)
    IN  << ISO_ID, 0, hi_part(total_len), lo_part(total_len), 2, 240, 128,
           S7_ID, 1, 0, 0, 5, 0, 0, 14,
           hi_part(csize + 4), lo_part(csize + 4), 5, 1, 18, 10, 16,
           wl, hi_part(csize), lo_part(csize), hi_part(db), lo_part(db), ar,
           (address \div 65536) % 256, (address \div 256) % 256, address % 256,
           0, transport, hi_part(bits_payload), lo_part(bits_payload) >> \o chunk

(* ------------------------------------------------------------------ *)
(* ISO framing                                                         *)
(* ------------------------------------------------------------------ *)
Err(e) == [err |-> e, val |-> 0]

Ok(v) == [err |-> "Ok", val |-> v]

check_iso_packet(pdu, iso_packet) ==
    IF At(iso_packet, 0) # ISO_ID \/ At(iso_packet, 4) # 2 \/ At(iso_packet, 5) # 240
    THEN Err("IsoInvalidHeader")
    ELSE IF At(iso_packet, 6) # EOT
    THEN Err("IsoFragmentedPacket")
    ELSE LET telegram_length == make_u16(At(iso_packet, 2), At(iso_packet, 3)) IN
         IF \/ telegram_length < TPKT_ISO_LEN
            \/ telegram_length - TPKT_ISO_LEN > pdu
            \/ telegram_length - TPKT_ISO_LEN = 0
         THEN Err("IsoInvalidTelegram")
         ELSE Ok(telegram_length - TPKT_ISO_LEN)

\* a match that lets every result code pass
ResultCodeIgnored(code) == "Ok"

\* the match on response[RW_RES_OFFSET] of read_area and write_area
ResultCode(code) ==
    IF code = RES_SUCCESS THEN "Ok"
    ELSE IF code = RES_NOT_FOUND THEN "S7NotFound"
    ELSE IF code = RES_INVALID_ADDRESS THEN "S7InvalidAddress"
    ELSE "S7Unspecified"

(* ------------------------------------------------------------------ *)
(* The peer.  A PLC holds data block PlcDb as a byte array and answers *)
(* every job as the protocol prescribes; a mock answers with any of a  *)
(* set of telegrams, well formed or not.                               *)
(* ------------------------------------------------------------------ *)
\* the data block the example driver uses
PlcDb == 100

Pow2(b) == IF b = 0 THEN 1 ELSE IF b = 1 THEN 2 ELSE IF b = 2 THEN 4
           ELSE IF b = 3 THEN 8 ELSE IF b = 4 THEN 16 ELSE IF b = 5 THEN 32
           ELSE IF b = 6 THEN 64 ELSE 128

BitOf(x, b) == (x \div Pow2(b)) % 2

SetBit(x, b, v) == x - BitOf(x, b) * Pow2(b) + v * Pow2(b)

InitMem == [i \in 1..AreaSize |-> IF i % 2 = 1 THEN 165 ELSE 90]

Prefix(b0, b4, b5, b6, tlen) == << b0, 0, hi_part(tlen), lo_part(tlen), b4, b5, b6 >>

GoodPrefix(tlen) == Prefix(ISO_ID, 2, 240, EOT, tlen)

\* Read-Var response after the prefix: 18 header bytes, the result code at
\* offset 14, then the payload
ReadBody(code, transport, payload) ==
    LET n == Len(payload) IN
    << S7_ID, 3, 0, 0, 5, 0, 0, 2, hi_part(4 + n), lo_part(4 + n), 0, 0, 4, 1,
       code, transport, hi_part(n * 8), lo_part(n * 8) >> \o payload

\* Write-Var response after the prefix: 15 bytes, the result code at offset 14
WriteBody(code) == << S7_ID, 3, 0, 0, 5, 0, 0, 2, 0, 1, 0, 0, 5, 1, code >>

ReadReply(code, transport, payload) ==
    GoodPrefix(TPKT_ISO_LEN + READ_RES_LEN + Len(payload)) \o ReadBody(code, transport, payload)

WriteReply(code) == GoodPrefix(TPKT_ISO_LEN + WRITE_RES_LEN) \o WriteBody(code)

\* Connection Confirm and the PDU negotiation reply of a PLC
PlcCc(cr) ==
    << ISO_ID, 0, 0, 22, 17, ISO_CONN_OK, 0, 1, 0, 1, 0, 192, 1, 10,
       193, 2, At(cr, 16), At(cr, 17), 194, 2, At(cr, 20), At(cr, 21) >>

PnReply(b0, b7, b17, pdu) ==
    << b0, 0, 0, 27, 2, 240, 128,
       b7, 3, 0, 0, 4, 0, 0, 8, 0, 0, b17, 0, 240, 0, 0, 1, 0, 1,
       hi_part(pdu), lo_part(pdu) >>

\* what a job request asks for, as the PLC decodes it
ReqWordlen(req) == At(req, 22)

ReqCount(req) == make_u16(At(req, 23), At(req, 24))

ReqDb(req) == make_u16(At(req, 25), At(req, 26))

ReqArea(req) == At(req, 27)

ReqAddress(req) == At(req, 28) * 65536 + At(req, 29) * 256 + At(req, 30)

ReqData(req) == SubSeq(req, 36, Len(req))

\* result code of the PLC for a job on its memory
PlcCode(req, ndata) ==
    LET wl == ReqWordlen(req)
        a  == ReqAddress(req)
        n  == ReqCount(req)
    IN  IF ReqArea(req) # S7_AREA_DB \/ ReqDb(req) # PlcDb THEN RES_NOT_FOUND
        ELSE IF wl = S7_WL_BIT
             THEN IF n = 1 /\ a \div 8 < AreaSize /\ ndata >= 1
                  THEN RES_SUCCESS ELSE RES_INVALID_ADDRESS
        ELSE IF wl = S7_WL_BYTE
             THEN IF a % 8 = 0 /\ (a \div 8) + n <= AreaSize /\ ndata >= n
                  THEN RES_SUCCESS ELSE RES_INVALID_ADDRESS
        ELSE RES_INVALID_ADDRESS

PlcReadReply(req, m) ==
    LET a == ReqAddress(req)
        n == ReqCount(req)
        code == PlcCode(req, n)
    IN  IF code # RES_SUCCESS THEN ReadReply(code, 0, << >>)
        ELSE IF ReqWordlen(req) = S7_WL_BIT
             THEN ReadReply(code, TS_RES_BIT, << BitOf(m[(a \div 8) + 1], a % 8) >>)
        ELSE ReadReply(code, TS_RES_BYTE, Slice(m, a \div 8, n))

PlcWriteReply(req) == WriteReply(PlcCode(req, Len(ReqData(req))))

PlcWriteMem(req, m) ==
    LET a == ReqAddress(req)
        n == ReqCount(req)
        d == ReqData(req)
    IN  IF PlcCode(req, Len(d)) # RES_SUCCESS THEN m
        ELSE IF ReqWordlen(req) = S7_WL_BIT
             THEN [m EXCEPT ![(a \div 8) + 1] =
                      SetBit(@, a % 8, IF d[1] # 0 THEN 1 ELSE 0)]
        ELSE [i \in 1..AreaSize |->
                 IF i > a \div 8 /\ i <= (a \div 8) + n THEN d[i - (a \div 8)] ELSE m[i]]

(* ------------------------------------------------------------------ *)
(* Inputs the callers and the peers are drawn from                     *)
(* ------------------------------------------------------------------ *)
\* overflow checks on (a debug build panics) or off (a release build wraps)
Builds == {"debug", "release"}

Tsaps == { <<256, 256>>, <<256, 258>> }

\* PDU lengths a mock puts into its negotiation reply / a PLC is configured with
MockPdus == {0, 17, 18, 240, 480, 960}

PlcPdus == {19, 28, 29}

\* the payload of n bytes a mock puts into a Read-Var response
MockPayload(n) == [i \in 1..n |-> 170]

\* a position of a caller's buffer that has not been written: no byte value
Stale == 255 + 1

MockCrReplies(cr) ==
    { PlcCc(cr),
      [PlcCc(cr) EXCEPT ![6] = ISO_CONN_REQ],
      SubSeq(PlcCc(cr), 1, ISO_CR_LEN - 1),
      << >> }

MockPnReplies ==
    { PnReply(ISO_ID, S7_ID, 0, p) : p \in MockPdus }
    \cup { PnReply(0, S7_ID, 0, PDU_LEN_REQ),
           PnReply(ISO_ID, 0, 0, PDU_LEN_REQ),
           PnReply(ISO_ID, S7_ID, 129, PDU_LEN_REQ),
           SubSeq(PnReply(ISO_ID, S7_ID, 0, PDU_LEN_REQ), 1, ISO_PN_RES_LEN - 1),
           << >> }

\* arguments of the public calls: << area, db_number, start, wordlen, buffer.len() >>
ReadAreaInputs ==
    { << S7_AREA_DB, PlcDb, 0, S7_WL_BYTE, n >> : n \in {0, 1, AreaSize, 462} }
    \cup { << S7_AREA_DB, PlcDb, 1, S7_WL_BYTE, 2 >>,
           << S7_AREA_MK, 0, 0, S7_WL_BYTE, 1 >>,
           << S7_AREA_DB, PlcDb, 8, S7_WL_BIT, 1 >>,
           << S7_AREA_DB, PlcDb, 0, S7_WL_BIT, 0 >>,
           << S7_AREA_DB, PlcDb, 0, 4, 2 >> }

\* << db_number, start, buffer.len() >>
ReadDbInputs ==
    { << PlcDb, 0, AreaSize >>, << PlcDb, 1, 1 >>, << PlcDb, AreaSize, 1 >>,
      << 7, 0, 1 >>, << PlcDb, 0, 500 >> }

\* << byte_num, bit_idx >> of read_bit and of write_bit
ReadBitInputs == { << 0, 0 >>, << 1, 5 >>, << 1, 7 >>, << 47, 5 >>, << 8192, 5 >>, << 1, 8 >> }

WriteBitInputs == { << 1, 5 >>, << 47, 5 >>, << 8192, 5 >>, << 1, 8 >> }

\* the bytes 17, 34, 51, ... of a write buffer
Ramp(n) == [i \in 1..n |-> (17 * i) % 256]

\* << area, db_number, start, wordlen, buffer >>
WriteAreaInputs ==
    { << S7_AREA_DB, PlcDb, 0, S7_WL_BYTE, Ramp(n) >> : n \in {0, 1, AreaSize} }
    \cup { << S7_AREA_DB, PlcDb, 1, S7_WL_BYTE, Slice(Ramp(AreaSize), 1, 2) >>,
           << S7_AREA_MK, 0, 0, S7_WL_BYTE, << 1 >> >>,
           << S7_AREA_DB, PlcDb, 8, S7_WL_BIT, << 1 >> >>,
           << S7_AREA_DB, PlcDb, 0, S7_WL_BIT, << >> >>,
           << S7_AREA_DB, PlcDb, 0, 4, << 1, 2 >> >> }

\* << db_number, start, buffer >>
WriteDbInputs ==
    { << PlcDb, 0, Ramp(AreaSize) >>, << PlcDb, 1, Slice(Ramp(AreaSize), 1, 1) >>,
      << PlcDb, AreaSize, << 1 >> >>, << 7, 0, << 1 >> >>, << PlcDb, 0, Ramp(1024) >> }


\* telegrams that differ from the well-formed one `good` (declared length
\* tlen, body `body`) in one respect each
Malformed(tlen, body, pdu) ==
    { Prefix(0, 2, 240, EOT, tlen) \o body,
      Prefix(ISO_ID, 3, 240, EOT, tlen) \o body,
      Prefix(ISO_ID, 2, 224, EOT, tlen) \o body,
      Prefix(ISO_ID, 2, 240, 0, tlen) \o body,
      Prefix(ISO_ID, 2, 240, 129, tlen) \o body,
      GoodPrefix(6) \o body,
      GoodPrefix(TPKT_ISO_LEN) \o body,
      GoodPrefix(tlen - 1) \o SubSeq(body, 1, Len(body) - 1),
      GoodPrefix((TPKT_ISO_LEN + pdu + 1) % 65536) \o body,
      GoodPrefix(tlen) \o SubSeq(body, 1, Len(body) - 1),
      << >> }

MockReadReplies(c, pdu) ==
    { ReadReply(RES_SUCCESS, TS_RES_BYTE, MockPayload(c)),
      ReadReply(RES_SUCCESS, TS_RES_BYTE, MockPayload(c + 1)),
      ReadReply(RES_NOT_FOUND, 0, << >>),
      ReadReply(RES_INVALID_ADDRESS, 0, << >>),
      ReadReply(51, 0, << >>) }
    \cup (IF c > 0 THEN { ReadReply(RES_SUCCESS, TS_RES_BYTE, MockPayload(c - 1)) }
          ELSE {})
    \cup Malformed(TPKT_ISO_LEN + READ_RES_LEN + c,
                   ReadBody(RES_SUCCESS, TS_RES_BYTE, MockPayload(c)), pdu)

MockWriteReplies(pdu) ==
    { WriteReply(RES_SUCCESS), WriteReply(RES_NOT_FOUND),
      WriteReply(RES_INVALID_ADDRESS), WriteReply(51) }
    \cup Malformed(TPKT_ISO_LEN + WRITE_RES_LEN, WriteBody(RES_SUCCESS), pdu)

\* what one stream.read into a buffer of cap bytes can return when avail bytes
\* of the reply have arrived: an I/O error (-1) or end of stream (0) when
\* there is nothing, otherwise everything that fits, or one byte less when the
\* transport delivers the reply in two pieces
ReadOutcomes(avail, cap) ==
    IF avail = 0 THEN {-1, 0}
    ELSE { Min(avail, cap) } \cup ({ Min(avail, cap) - 1 } \ {0})

\* the receive buffer [0u8; cap] after a read that returned n bytes of rx
Received(rxbytes, n, cap) == [i \in 1..cap |-> IF i <= n THEN rxbytes[i] ELSE 0]

(* ------------------------------------------------------------------ *)
(* State                                                               *)
(* ------------------------------------------------------------------ *)
VARIABLES
    build,              \* overflow checks of the build
    \* struct S7Client
    stream, conn_type, max_rd_pdu_data, max_wr_pdu_data,
    pdu_length, connected, last_time, chunks,
    port, co_timeout_ms, rd_timeout_ms, wr_timeout_ms,
    \* the public call in progress or last returned
    pc, op, result, ret,
    \* connect_tsap's locals
    sock, iso_resp, pn_resp,
    \* read_area's and write_area's locals
    wordlen, area, db_number, start, datasize, offset, long_start, chunk_size,
    buffer, iso_packet, s7_comm_size, size_resp, response, framed,
    \* the wire
    peer, rx, request, nio,
    \* the PLC's data block
    mem,
    \* history: every reply of the call so far was a well-formed success
    \* delivered whole; the last write that returned Ok and is still in place
    honest, lastWrite

session == << stream, conn_type, max_rd_pdu_data, max_wr_pdu_data,
              pdu_length, connected, last_time, chunks >>

\* the fields only the set_* methods write
config == << port, co_timeout_ms, rd_timeout_ms, wr_timeout_ms >>

call == << pc, op, result, ret >>

conn_locals == << sock, iso_resp, pn_resp >>

rw_args == << wordlen, area, db_number, start, datasize >>

rw_loop == << offset, long_start, chunk_size, buffer >>

rw_recv == << iso_packet, s7_comm_size, size_resp, response, framed >>

wire == << peer, rx, request, nio >>

hist == << honest, lastWrite >>

vars == << build, session, config, call, conn_locals, rw_args, rw_loop, rw_recv, wire, mem, hist >>

NoWrite == [valid |-> FALSE, bit |-> FALSE, start |-> 0, idx |-> 0, data |-> << >>]

Init ==
    /\ build \in Builds
    \* S7Client::new
    /\ stream = "None"
    /\ conn_type = CT_PG
    /\ max_rd_pdu_data = 0
    /\ max_wr_pdu_data = 0
    /\ pdu_length = 0
    /\ connected = FALSE
    /\ last_time = 0
    /\ chunks = 0
    /\ port = 102
    /\ co_timeout_ms = 3000
    /\ rd_timeout_ms = 1000
    /\ wr_timeout_ms = 500
    /\ pc = "idle"
    /\ op = [name |-> "new", args |-> << >>]
    /\ result = "Ok"
    /\ ret = FALSE
    /\ sock = "none"
    /\ iso_resp = << >>
    /\ pn_resp = << >>
    /\ wordlen = 0 /\ area = 0 /\ db_number = 0 /\ start = 0 /\ datasize = 0
    /\ offset = 0 /\ long_start = 0 /\ chunk_size = 0 /\ buffer = << >>
    /\ iso_packet = << >> /\ s7_comm_size = 0 /\ size_resp = 0 /\ response = << >>
    /\ framed = FALSE
    /\ peer = "none" /\ rx = << >> /\ request = << >> /\ nio = 0
    /\ mem = InitMem
    /\ honest = TRUE
    /\ lastWrite = NoWrite

(* ------------------------------------------------------------------ *)
(* Locals live for one call: every public call starts with fresh ones  *)
(* ------------------------------------------------------------------ *)
FreshConn ==
    /\ iso_resp' = << >>
    /\ pn_resp' = << >>

FreshWire ==
    /\ nio' = 0
    /\ request' = << >>
    /\ rx' = << >>
    /\ honest' = TRUE
    /\ ret' = FALSE

FreshRecv ==
    /\ iso_packet' = << >>
    /\ s7_comm_size' = 0
    /\ size_resp' = 0
    /\ response' = << >>
    /\ framed' = FALSE

FreshRw ==
    /\ wordlen' = 0 /\ area' = 0 /\ db_number' = 0 /\ start' = 0 /\ datasize' = 0
    /\ offset' = 0 /\ long_start' = 0 /\ chunk_size' = 0 /\ buffer' = << >>
    /\ FreshRecv

\* A data block is seen only through a connection, and every connection
\* finds it as InitMem: what an abandoned connection left behind is forgotten.
NewPeer ==
    /\ mem' = InitMem
    /\ lastWrite' = NoWrite

Panics ==
    /\ pc' = "panicked"
    /\ result' = "Panic"

(* ------------------------------------------------------------------ *)
(* connect_tsap                                                        *)
(* ------------------------------------------------------------------ *)
\* entry: connected and last_time are reset before anything else
ConnectTsapEnter(name, args) ==
    /\ connected' = FALSE
    /\ last_time' = 0
    /\ pc' = "tcp"
    /\ op' = [name |-> name, args |-> args]
    /\ result' = "none"
    /\ FreshConn
    /\ FreshWire
    /\ FreshRw
    /\ NewPeer
    /\ UNCHANGED << config, build, stream, conn_type, max_rd_pdu_data, max_wr_pdu_data,
                    pdu_length, chunks, sock, peer >>

\* args[1], args[2] of a connect call are the TSAPs connect_tsap was given
ConnectTsapCall(local_tsap, remote_tsap) ==
    /\ pc = "idle"
    /\ ConnectTsapEnter("connect_tsap", << local_tsap, remote_tsap >>)

\* an error return of connect_tsap: the local stream is dropped
ConnectFails(e) ==
    /\ pc' = "idle"
    /\ result' = e
    /\ sock' = "none"

\* TcpStream::connect_timeout, the socket options, write_all(&iso_cr)
TcpConnect ==
    /\ pc = "tcp"
    /\ \/ /\ \E e \in {"TcpConnectionFailed", "Io"} : ConnectFails(e)
          /\ UNCHANGED << peer, request, nio >>
       \/ /\ \E p \in {"plc", "mock"} : peer' = p
          /\ \/ /\ sock' = "open"
                /\ request' = IsoCr(op.args[1], op.args[2])
                /\ nio' = nio + 1
                /\ pc' = "iso_peer"
                /\ result' = "none"
             \/ /\ ConnectFails("Io")
                /\ nio' = nio + 1
                /\ request' = << >>
    /\ UNCHANGED << config, build, session, op, ret, iso_resp, pn_resp, rw_args, rw_loop,
                    rw_recv, rx, mem, hist >>

\* the peer answers the Connection Request
PeerCc ==
    /\ pc = "iso_peer"
    /\ IF peer = "plc" THEN rx' = PlcCc(request)
       ELSE \E r \in MockCrReplies(request) : rx' = r
    /\ pc' = "iso_recv"
    /\ UNCHANGED << config, build, session, op, result, ret, conn_locals, rw_args, rw_loop,
                    rw_recv, peer, request, nio, mem, hist >>

\* the check of the CR reply
IsoAcceptedNoType(size, resp) == size >= ISO_CR_LEN

IsoAccepted(size, resp) == ~(size < ISO_CR_LEN \/ At(resp, 5) # ISO_CONN_OK)

\* stream.read(&mut iso_resp), the check, write_all(&s7_pn)
IsoRecv ==
    /\ pc = "iso_recv"
    /\ nio' = nio + 1
    /\ \E n \in ReadOutcomes(Len(rx), ISO_CR_LEN) :
          IF n < 0
          THEN /\ ConnectFails("Io")
               /\ UNCHANGED << iso_resp, request, rx >>
          ELSE /\ iso_resp' = Received(rx, n, ISO_CR_LEN)
               /\ rx' = SubSeq(rx, n + 1, Len(rx))
               /\ IF ~IsoAccepted(n, iso_resp')
                  THEN /\ ConnectFails("IsoConnectionFailed")
                       /\ UNCHANGED request
                  ELSE \/ /\ request' = S7Pn
                          /\ pc' = "pn_peer"
                          /\ UNCHANGED << result, sock >>
                       \/ /\ ConnectFails("Io")
                          /\ UNCHANGED request
    /\ UNCHANGED << config, build, session, op, ret, pn_resp, rw_args, rw_loop, rw_recv,
                    peer, mem, hist >>

\* the peer answers the PDU negotiation
PeerPn ==
    /\ pc = "pn_peer"
    /\ IF peer = "plc"
       THEN \E p \in PlcPdus : rx' = PnReply(ISO_ID, S7_ID, 0, p)
       ELSE \E r \in MockPnReplies : rx' = r
    /\ pc' = "pn_recv"
    /\ UNCHANGED << config, build, session, op, result, ret, conn_locals, rw_args, rw_loop,
                    rw_recv, peer, request, nio, mem, hist >>

\* the check of the negotiation reply
PnAcceptedNoLength(size, resp) ==
    ~(At(resp, 0) # ISO_ID \/ At(resp, 7) # S7_ID \/ At(resp, 17) # 0)

PnAccepted(size, resp) ==
    ~(size < ISO_PN_RES_LEN \/ At(resp, 0) # ISO_ID \/ At(resp, 7) # S7_ID
      \/ At(resp, 17) # 0)

\* stream.read(&mut pn_resp), the checks, the derived payload sizes, and the
\* switch to connected.  pdu_length - 18 and pdu_length - 28 are u16
\* subtractions.
PnRecv ==
    /\ pc = "pn_recv"
    /\ nio' = nio + 1
    /\ \E n \in ReadOutcomes(Len(rx), ISO_PN_RES_LEN) :
          IF n < 0
          THEN /\ ConnectFails("Io")
               /\ UNCHANGED << pn_resp, rx, session >>
          ELSE /\ pn_resp' = Received(rx, n, ISO_PN_RES_LEN)
               /\ rx' = SubSeq(rx, n + 1, Len(rx))
               /\ IF ~PnAccepted(n, pn_resp')
                  THEN /\ ConnectFails("PduNegotiationFailed")
                       /\ UNCHANGED session
                  ELSE LET p  == make_u16(At(pn_resp', 25), At(pn_resp', 26))
                           rd == U16(p - 18)
                           wr == U16(p - 28)
                       IN  /\ pdu_length' = p
                           /\ UNCHANGED << conn_type, chunks >>
                           /\ IF p = 0
                              THEN /\ ConnectFails("PduNegotiationFailed")
                                   /\ UNCHANGED << stream, max_rd_pdu_data,
                                                   max_wr_pdu_data, connected, last_time >>
                              ELSE IF rd.ovf /\ build = "debug"
                              THEN /\ pc' = "panicked"
                                   /\ result' = "Panic"
                                   /\ sock' = "none"
                                   /\ UNCHANGED << stream, max_rd_pdu_data,
                                                   max_wr_pdu_data, connected, last_time >>
                              ELSE IF wr.ovf /\ build = "debug"
                              THEN /\ max_rd_pdu_data' = rd.val
                                   /\ pc' = "panicked"
                                   /\ result' = "Panic"
                                   /\ sock' = "none"
                                   /\ UNCHANGED << stream, max_wr_pdu_data,
                                                   connected, last_time >>
                              ELSE /\ max_rd_pdu_data' = rd.val
                                   /\ max_wr_pdu_data' = wr.val
                                   /\ stream' = "Some"
                                   /\ sock' = "none"
                                   /\ connected' = TRUE
                                   /\ last_time' = 1
                                   /\ pc' = "idle"
                                   /\ result' = "Ok"
    /\ UNCHANGED << config, build, op, ret, iso_resp, rw_args, rw_loop, rw_recv,
                    peer, request, mem, hist >>

(* ------------------------------------------------------------------ *)
(* disconnect                                                          *)
(* ------------------------------------------------------------------ *)
\* disconnect giving up the stream without clearing connected
DisconnectKeepsConnected ==
    /\ pc = "idle"
    /\ op' = [name |-> "disconnect", args |-> << >>]
    /\ IF connected
       THEN IF stream = "None"
            THEN /\ pc' = "panicked"
                 /\ result' = "Panic"
                 /\ UNCHANGED << stream, connected >>
            ELSE /\ stream' = "None"
                 /\ result' = "Ok"
                 /\ UNCHANGED << pc, connected >>
       ELSE /\ result' = "Ok"
            /\ UNCHANGED << pc, stream, connected >>
    /\ FreshConn
    /\ FreshWire
    /\ FreshRw
    /\ NewPeer
    /\ UNCHANGED << config, build, conn_type, max_rd_pdu_data, max_wr_pdu_data, pdu_length,
                    last_time, chunks, sock, peer >>

Disconnect ==
    /\ pc = "idle"
    /\ op' = [name |-> "disconnect", args |-> << >>]
    /\ IF connected
       THEN IF stream = "None"
            THEN \* self.stream.as_mut().unwrap() on None
                 /\ pc' = "panicked"
                 /\ result' = "Panic"
                 /\ UNCHANGED << stream, connected >>
            ELSE /\ stream' = "None"
                 /\ connected' = FALSE
                 /\ result' = "Ok"
                 /\ UNCHANGED pc
       ELSE /\ result' = "Ok"
            /\ UNCHANGED << pc, stream, connected >>
    /\ FreshConn
    /\ FreshWire
    /\ FreshRw
    /\ NewPeer
    /\ UNCHANGED << config, build, conn_type, max_rd_pdu_data, max_wr_pdu_data, pdu_length,
                    last_time, chunks, sock, peer >>

\* impl Drop: disconnect, then the fields are dropped and with them a stream
\* that disconnect left in place.  No call follows.
Drop ==
    /\ pc = "idle"
    /\ op' = [name |-> "drop", args |-> << >>]
    /\ IF connected /\ stream = "None"
       THEN \* self.stream.as_mut().unwrap() on None
            /\ Panics
            /\ UNCHANGED << stream, connected >>
       ELSE /\ stream' = "None"
            /\ connected' = FALSE
            /\ result' = "Ok"
            /\ pc' = "dropped"
    /\ FreshConn
    /\ FreshWire
    /\ FreshRw
    /\ NewPeer
    /\ UNCHANGED << config, build, conn_type, max_rd_pdu_data, max_wr_pdu_data, pdu_length,
                    last_time, chunks, sock, peer >>

(* ------------------------------------------------------------------ *)
(* Receiving one job response: read_exact of the 7-byte prefix,        *)
(* check_iso_packet, the minimum length, one stream.read into          *)
(* [0u8; PDU_LEN_REQ], the length check and the result byte            *)
(* (read_area lines 573-597, write_area lines 744-768).                *)
(* n is what stream.read returns.  res is "Ok" when the loop goes on.  *)
(* ------------------------------------------------------------------ *)
RecvRec(res, io, left, pk, s7, n, resp, fr) ==
    [res |-> res, nio |-> io, rx |-> left, iso_packet |-> pk, s7_comm_size |-> s7,
     size_resp |-> n, response |-> resp, framed |-> fr]

Recv(minlen, n) ==
    LET pk   == SubSeq(rx, 1, TPKT_ISO_LEN)
        rest == SubSeq(rx, TPKT_ISO_LEN + 1, Len(rx))
        chk  == check_iso_packet(pdu_length, pk)
        resp == Received(rest, n, PDU_LEN_REQ)
    IN  IF Len(rx) < TPKT_ISO_LEN THEN RecvRec("Io", 1, << >>, << >>, 0, 0, << >>, FALSE)
        ELSE IF chk.err # "Ok" THEN RecvRec(chk.err, 1, rest, pk, 0, 0, << >>, FALSE)
        ELSE IF chk.val < minlen
             THEN RecvRec("IsoInvalidTelegram", 1, rest, pk, chk.val, 0, << >>, FALSE)
        ELSE IF n < 0 THEN RecvRec("Io", 2, rest, pk, chk.val, 0, << >>, FALSE)
        ELSE IF n < chk.val
             THEN RecvRec("IsoInvalidTelegram", 2, SubSeq(rest, n + 1, Len(rest)), pk,
                          chk.val, n, SubSeq(rest, 1, n), FALSE)
        ELSE RecvRec(ResultCode(At(resp, RW_RES_OFFSET)), 2,
                     SubSeq(rest, n + 1, Len(rest)), pk, chk.val, n,
                     SubSeq(rest, 1, n), TRUE)

\* what the stream.read of the response body can return
BodyReads == ReadOutcomes(IF Len(rx) < TPKT_ISO_LEN THEN 0 ELSE Len(rx) - TPKT_ISO_LEN,
                          PDU_LEN_REQ)

\* the transport handed over all of the reply that fits the receive buffer
Whole(n) == Len(rx) >= TPKT_ISO_LEN /\ n = Min(Len(rx) - TPKT_ISO_LEN, PDU_LEN_REQ)

\* a reply is the well-formed success response to a request of c elements
WellFormedRead(r, c) ==
    /\ Len(r) = TPKT_ISO_LEN + READ_RES_LEN + c
    /\ SubSeq(r, 1, TPKT_ISO_LEN) = GoodPrefix(Len(r))
    /\ At(r, TPKT_ISO_LEN + RW_RES_OFFSET) = RES_SUCCESS

WellFormedWrite(r) ==
    /\ Len(r) = TPKT_ISO_LEN + WRITE_RES_LEN
    /\ SubSeq(r, 1, TPKT_ISO_LEN) = GoodPrefix(Len(r))
    /\ At(r, TPKT_ISO_LEN + RW_RES_OFFSET) = RES_SUCCESS

(* ------------------------------------------------------------------ *)
(* read_area, read_db, read_bit                                        *)
(* ------------------------------------------------------------------ *)
\* datasize of read_area and write_area
DataSize(wl, len) == IF wl = S7_WL_BYTE THEN Min(len, U16_MAX) ELSE 1

\* read_area up to the loop: the resets, the connection check, datasize
ReadAreaEnter(nm, args, ar, db, st, wl, buf) ==
    /\ op' = [name |-> nm, args |-> args]
    /\ last_time' = 0
    /\ chunks' = 0
    /\ FreshConn
    /\ FreshWire
    /\ FreshRecv
    /\ wordlen' = wl /\ area' = ar /\ db_number' = db /\ start' = st
    /\ buffer' = buf
    /\ offset' = 0
    /\ chunk_size' = 0
    /\ long_start' = st
    /\ IF ~connected
       THEN /\ pc' = "idle"
            /\ result' = "NotConnected"
            /\ datasize' = 0
       ELSE /\ datasize' = DataSize(wl, Len(buf))
            /\ IF stream = "None" THEN Panics
               ELSE /\ pc' = "rd_loop"
                    /\ result' = "none"
    /\ UNCHANGED << config, build, stream, conn_type, max_rd_pdu_data, max_wr_pdu_data,
                    pdu_length, connected, sock, peer, mem, lastWrite >>

ReadAreaCall(ar, db, st, wl, len) ==
    /\ pc = "idle"
    /\ ReadAreaEnter("read_area", << ar, db, st, wl, len >>, ar, db, st, wl, Fill(len, Stale))

ReadDbCall(db, st, len) ==
    /\ pc = "idle"
    /\ ReadAreaEnter("read_db", << db, st, len >>, S7_AREA_DB, db, st, S7_WL_BYTE,
                     Fill(len, Stale))

\* the guard of read_bit and write_bit
BitIdxInvalidOff(bit_idx) == bit_idx > 8

BitIdxInvalid(bit_idx) == bit_idx > 7

\* the early return of read_bit and write_bit: nothing of the session is touched
BitIdxRejected(nm, args) ==
    /\ op' = [name |-> nm, args |-> args]
    /\ pc' = "idle"
    /\ result' = "S7InvalidAddress"
    /\ FreshConn
    /\ FreshWire
    /\ FreshRw
    /\ UNCHANGED << config, build, session, sock, peer, mem, lastWrite >>

\* byte_num * 8 + bit_idx overflowed in a build that checks: the call panics
BitStartPanics(nm, args) ==
    /\ op' = [name |-> nm, args |-> args]
    /\ Panics
    /\ FreshConn
    /\ FreshWire
    /\ FreshRw
    /\ UNCHANGED << config, build, session, sock, peer, mem, lastWrite >>

\* let start: u16 = byte_num * 8 + bit_idx as u16
BitStartOfByte(byte_num, bit_idx) == U16(byte_num * 8)

BitStart(byte_num, bit_idx) == U16(byte_num * 8 + bit_idx)

ReadBitCall(ar, db, byte_num, bit_idx) ==
    /\ pc = "idle"
    /\ LET args == << ar, db, byte_num, bit_idx >>
           st   == BitStart(byte_num, bit_idx)
       IN  IF BitIdxInvalid(bit_idx) THEN BitIdxRejected("read_bit", args)
           ELSE IF st.ovf /\ build = "debug" THEN BitStartPanics("read_bit", args)
           ELSE ReadAreaEnter("read_bit", args, ar, db, st.val, S7_WL_BIT, << 0 >>)

\* a chunk_size that ignores the negotiated payload size
ChunkSizeWhole(remaining, max) == remaining

\* chunk_size of one iteration
ChunkSize(remaining, max) == Min(remaining, max)

\* the loop head of read_area: the next request, or the return of Ok
RdLoop ==
    /\ pc = "rd_loop"
    /\ IF offset < datasize
       THEN LET cs == ChunkSize(datasize - offset, max_rd_pdu_data) IN
            /\ cs > 0 \/ chunks < MaxSpin
            /\ chunk_size' = cs
            /\ chunks' = chunks + 1
            /\ nio' = nio + 1
            /\ framed' = FALSE
            /\ \/ /\ request' = ReadRequest(wordlen, cs, db_number, area, long_start)
                  /\ pc' = "rd_peer"
                  /\ UNCHANGED result
               \/ /\ pc' = "idle"
                  /\ result' = "Io"
                  /\ UNCHANGED request
            /\ UNCHANGED << last_time, ret >>
       ELSE /\ last_time' = 1
            /\ pc' = "idle"
            /\ result' = "Ok"
            /\ ret' = (op.name = "read_bit" /\ buffer[1] # 0)
            /\ UNCHANGED << chunk_size, chunks, nio, framed, request >>
    /\ UNCHANGED << config, build, stream, conn_type, max_rd_pdu_data, max_wr_pdu_data,
                    pdu_length, connected, op, conn_locals, rw_args, offset,
                    long_start, buffer, iso_packet, s7_comm_size, size_resp,
                    response, peer, rx, mem, hist >>

\* the peer answers a Read-Var job
RdPeer ==
    /\ pc = "rd_peer"
    /\ IF peer = "plc" THEN rx' = PlcReadReply(request, mem)
       ELSE \E r \in MockReadReplies(chunk_size, pdu_length) : rx' = r
    /\ honest' = (honest /\ WellFormedRead(rx', chunk_size))
    /\ pc' = "rd_recv"
    /\ UNCHANGED << config, build, session, op, result, ret, conn_locals, rw_args, rw_loop,
                    rw_recv, peer, request, nio, mem, lastWrite >>

\* the payload copied into the caller's buffer
CopyPayloadFromStart(buf, off, resp, plen) ==
    [i \in 1..Len(buf) |-> IF i <= plen THEN resp[READ_RES_LEN + i] ELSE buf[i]]

CopyPayload(buf, off, resp, plen) ==
    [i \in 1..Len(buf) |->
        IF i > off /\ i <= off + plen THEN resp[READ_RES_LEN + i - off] ELSE buf[i]]

\* the response to a Read-Var job is received and its payload copied
RdRecv ==
    /\ pc = "rd_recv"
    /\ \E n \in BodyReads :
          LET r == Recv(READ_RES_LEN, n)
              plen == Min(r.size_resp - READ_RES_LEN, chunk_size)
          IN  /\ nio' = nio + r.nio
              /\ rx' = r.rx
              /\ iso_packet' = r.iso_packet
              /\ s7_comm_size' = r.s7_comm_size
              /\ size_resp' = r.size_resp
              /\ response' = r.response
              /\ framed' = r.framed
              /\ honest' = (honest /\ Whole(n))
              /\ IF r.res # "Ok"
                 THEN /\ pc' = "idle"
                      /\ result' = r.res
                      /\ UNCHANGED << offset, long_start, buffer >>
                 ELSE IF offset + plen > Len(buffer)
                 THEN \* buffer[offset..offset + payload.len()] out of range
                      /\ Panics
                      /\ UNCHANGED << offset, long_start, buffer >>
                 ELSE /\ buffer' = CopyPayload(buffer, offset, r.response, plen)
                      /\ offset' = offset + chunk_size
                      /\ long_start' = long_start + chunk_size
                      /\ pc' = "rd_loop"
                      /\ UNCHANGED result
    /\ UNCHANGED << config, build, session, op, ret, conn_locals, rw_args, chunk_size,
                    peer, request, mem, lastWrite >>


(* ------------------------------------------------------------------ *)
(* write_area, write_db, write_bit                                     *)
(* ------------------------------------------------------------------ *)
\* what the history keeps of a write that returned Ok
WriteDone ==
    IF peer # "plc" THEN NoWrite
    ELSE IF op.name = "write_bit"
    THEN [valid |-> TRUE, bit |-> TRUE, start |-> op.args[3], idx |-> op.args[4],
          data |-> buffer]
    ELSE IF wordlen = S7_WL_BYTE
    THEN [valid |-> TRUE, bit |-> FALSE, start |-> start, idx |-> 0, data |-> buffer]
    ELSE NoWrite

\* write_area up to the loop: the resets, the connection check, datasize
WriteAreaEnter(nm, args, ar, db, st, wl, buf) ==
    /\ op' = [name |-> nm, args |-> args]
    /\ last_time' = 0
    /\ chunks' = 0
    /\ FreshConn
    /\ FreshWire
    /\ FreshRecv
    /\ wordlen' = wl /\ area' = ar /\ db_number' = db /\ start' = st
    /\ buffer' = buf
    /\ offset' = 0
    /\ chunk_size' = 0
    /\ long_start' = st
    /\ IF ~connected
       THEN /\ pc' = "idle"
            /\ result' = "NotConnected"
            /\ datasize' = 0
            /\ UNCHANGED lastWrite
       ELSE /\ datasize' = DataSize(wl, Len(buf))
            /\ lastWrite' = NoWrite
            /\ IF stream = "None" THEN Panics
               ELSE /\ pc' = "wr_loop"
                    /\ result' = "none"
    /\ UNCHANGED << config, build, stream, conn_type, max_rd_pdu_data, max_wr_pdu_data,
                    pdu_length, connected, sock, peer, mem >>

WriteAreaCall(ar, db, st, wl, buf) ==
    /\ pc = "idle"
    /\ WriteAreaEnter("write_area", << ar, db, st, wl, buf >>, ar, db, st, wl, buf)

WriteDbCall(db, st, buf) ==
    /\ pc = "idle"
    /\ WriteAreaEnter("write_db", << db, st, buf >>, S7_AREA_DB, db, st, S7_WL_BYTE, buf)

WriteBitCall(ar, db, byte_num, bit_idx, value) ==
    /\ pc = "idle"
    /\ LET args == << ar, db, byte_num, bit_idx, value >>
           st   == BitStart(byte_num, bit_idx)
       IN  IF BitIdxInvalid(bit_idx) THEN BitIdxRejected("write_bit", args)
           ELSE IF st.ovf /\ build = "debug" THEN BitStartPanics("write_bit", args)
           ELSE WriteAreaEnter("write_bit", args, ar, db, st.val, S7_WL_BIT,
                               << IF value THEN 1 ELSE 0 >>)

\* the loop head of write_area: the next request, or the return of Ok
WrLoop ==
    /\ pc = "wr_loop"
    /\ IF offset < datasize
       THEN LET cs == ChunkSize(datasize - offset, max_wr_pdu_data) IN
            /\ cs > 0 \/ chunks < MaxSpin
            /\ chunks' = chunks + 1
            /\ chunk_size' = cs
            /\ framed' = FALSE
            /\ IF offset + cs > Len(buffer)
               THEN \* &buffer[offset..offset + chunk_size] out of range
                    /\ Panics
                    /\ UNCHANGED << request, nio >>
               ELSE /\ nio' = nio + 1
                    /\ \/ /\ request' = WriteRequest(wordlen, cs, db_number, area,
                                                     long_start, Slice(buffer, offset, cs))
                          /\ pc' = "wr_peer"
                          /\ UNCHANGED result
                       \/ /\ pc' = "idle"
                          /\ result' = "Io"
                          /\ UNCHANGED request
            /\ UNCHANGED << last_time, lastWrite >>
       ELSE /\ last_time' = 1
            /\ pc' = "idle"
            /\ result' = "Ok"
            /\ lastWrite' = WriteDone
            /\ UNCHANGED << chunk_size, chunks, nio, framed, request >>
    /\ UNCHANGED << config, build, stream, conn_type, max_rd_pdu_data, max_wr_pdu_data,
                    pdu_length, connected, op, ret, conn_locals, rw_args, offset,
                    long_start, buffer, iso_packet, s7_comm_size, size_resp,
                    response, peer, rx, mem, honest >>

\* the peer answers a Write-Var job; a PLC applies it to its data block
WrPeer ==
    /\ pc = "wr_peer"
    /\ IF peer = "plc"
       THEN /\ rx' = PlcWriteReply(request)
            /\ mem' = PlcWriteMem(request, mem)
       ELSE /\ \E r \in MockWriteReplies(pdu_length) : rx' = r
            /\ UNCHANGED mem
    /\ honest' = (honest /\ WellFormedWrite(rx'))
    /\ pc' = "wr_recv"
    /\ UNCHANGED << config, build, session, op, result, ret, conn_locals, rw_args, rw_loop,
                    rw_recv, peer, request, nio, lastWrite >>

\* write_area giving the connection up when a response fails
WrRecvClosesOnError ==
    /\ pc = "wr_recv"
    /\ \E n \in BodyReads :
          LET r == Recv(WRITE_RES_LEN, n) IN
          /\ nio' = nio + r.nio
          /\ rx' = r.rx
          /\ iso_packet' = r.iso_packet
          /\ s7_comm_size' = r.s7_comm_size
          /\ size_resp' = r.size_resp
          /\ response' = r.response
          /\ framed' = r.framed
          /\ honest' = (honest /\ Whole(n))
          /\ IF r.res # "Ok"
             THEN /\ pc' = "idle"
                  /\ result' = r.res
                  /\ connected' = FALSE
                  /\ UNCHANGED << offset, long_start >>
             ELSE /\ offset' = offset + chunk_size
                  /\ long_start' = long_start + chunk_size
                  /\ pc' = "wr_loop"
                  /\ UNCHANGED << result, connected >>
    /\ UNCHANGED << config, build, stream, conn_type, max_rd_pdu_data, max_wr_pdu_data,
                    pdu_length, last_time, chunks, op, ret, conn_locals, rw_args,
                    chunk_size, buffer, peer, request, mem, lastWrite >>

\* the response to a Write-Var job is received
WrRecv ==
    /\ pc = "wr_recv"
    /\ \E n \in BodyReads :
          LET r == Recv(WRITE_RES_LEN, n) IN
          /\ nio' = nio + r.nio
          /\ rx' = r.rx
          /\ iso_packet' = r.iso_packet
          /\ s7_comm_size' = r.s7_comm_size
          /\ size_resp' = r.size_resp
          /\ response' = r.response
          /\ framed' = r.framed
          /\ honest' = (honest /\ Whole(n))
          /\ IF r.res # "Ok"
             THEN /\ pc' = "idle"
                  /\ result' = r.res
                  /\ UNCHANGED << offset, long_start >>
             ELSE /\ offset' = offset + chunk_size
                  /\ long_start' = long_start + chunk_size
                  /\ pc' = "wr_loop"
                  /\ UNCHANGED result
    /\ UNCHANGED << config, build, session, op, ret, conn_locals, rw_args, chunk_size, buffer,
                    peer, request, mem, lastWrite >>


(* ------------------------------------------------------------------ *)
(* The set_* methods and the rack/slot forms of connect                *)
(* ------------------------------------------------------------------ *)
\* connection types, << rack, slot >> pairs, ports and timeout triples tried
ConnectionTypes == {0, CT_PG}

RackSlots == { << 8, 0 >>, << 2048, 0 >> }

Ports == {0, 1102}

Timeouts == { << 0, 2000, 0 >>, << 5000, 2000, 700 >> }

\* a set_* method returns (); locals of earlier calls are gone.  The methods
\* are documented for a client that is not connected, and are called so.
SetterReturns(name, args) ==
    /\ ~connected
    /\ op' = [name |-> name, args |-> args]
    /\ result' = "Ok"
    /\ FreshConn
    /\ FreshWire
    /\ FreshRw
    /\ UNCHANGED << build, stream, max_rd_pdu_data, max_wr_pdu_data, pdu_length,
                    connected, last_time, chunks, pc, sock, peer, mem, lastWrite >>

\* set_connection_type with a write to pdu_length added
SetConnectionTypeResetsPdu(connection_type) ==
    /\ pc = "idle"
    /\ ~connected
    /\ conn_type' = connection_type
    /\ op' = [name |-> "set_connection_type", args |-> << connection_type >>]
    /\ result' = "Ok"
    /\ pdu_length' = 0
    /\ FreshConn
    /\ FreshWire
    /\ FreshRw
    /\ UNCHANGED << config, build, stream, max_rd_pdu_data, max_wr_pdu_data,
                    connected, last_time, chunks, pc, sock, peer, mem, lastWrite >>

SetConnectionTypeCall(connection_type) ==
    /\ pc = "idle"
    /\ conn_type' = connection_type
    /\ SetterReturns("set_connection_type", << connection_type >>)
    /\ UNCHANGED config

SetTimeoutCall(co, rd, wr) ==
    /\ pc = "idle"
    /\ co_timeout_ms' = IF co > 0 THEN co ELSE co_timeout_ms
    /\ rd_timeout_ms' = IF rd > 0 THEN rd ELSE rd_timeout_ms
    /\ wr_timeout_ms' = IF wr > 0 THEN wr ELSE wr_timeout_ms
    /\ SetterReturns("set_timeout", << co, rd, wr >>)
    /\ UNCHANGED << conn_type, port >>

\* set_connection_port without its zero check
SetConnectionPortAny(p) ==
    /\ pc = "idle"
    /\ port' = p
    /\ SetterReturns("set_connection_port", << p >>)
    /\ UNCHANGED << conn_type, co_timeout_ms, rd_timeout_ms, wr_timeout_ms >>

SetConnectionPortCall(p) ==
    /\ pc = "idle"
    /\ port' = IF p > 0 THEN p ELSE port
    /\ SetterReturns("set_connection_port", << p >>)
    /\ UNCHANGED << conn_type, co_timeout_ms, rd_timeout_ms, wr_timeout_ms >>

\* let remote_tsap: u16 = (self.conn_type << 8) + (rack * 0x20) + slot
\* the shift drops the high bits; the product and the two sums are checked
RemoteTsap(ct, rack, slot) ==
    LET shifted == (ct * 256) % 65536
        scaled  == U16(rack * 32)
        sum     == U16(shifted + scaled.val)
        all     == U16(sum.val + slot)
    IN  [val |-> all.val, ovf |-> scaled.ovf \/ sum.ovf \/ all.ovf]

\* connect_rack_slot: args are << local_tsap, remote_tsap, rack, slot >>
ConnectRackSlotEnter(name, rack, slot) ==
    LET remote_tsap == RemoteTsap(conn_type, rack, slot)
        args == << 256, remote_tsap.val, rack, slot >>
    IN  IF remote_tsap.ovf /\ build = "debug"
        THEN /\ op' = [name |-> name, args |-> args]
             /\ Panics
             /\ FreshConn
             /\ FreshWire
             /\ FreshRw
             /\ UNCHANGED << config, build, session, sock, peer, mem, lastWrite >>
        ELSE ConnectTsapEnter(name, args)

ConnectRackSlotCall(rack, slot) ==
    /\ pc = "idle"
    /\ ConnectRackSlotEnter("connect_rack_slot", rack, slot)

ConnectS71200_1500Call ==
    /\ pc = "idle"
    /\ ConnectRackSlotEnter("connect_s71200_1500", 0, 0)

ConnectS7300Call ==
    /\ pc = "idle"
    /\ ConnectRackSlotEnter("connect_s7300", 0, 2)

Next ==
    \/ \E t \in Tsaps : ConnectTsapCall(t[1], t[2])
    \/ TcpConnect
    \/ PeerCc
    \/ IsoRecv
    \/ PeerPn
    \/ PnRecv
    \/ Disconnect
    \/ Drop
    \/ \E a \in ReadAreaInputs : ReadAreaCall(a[1], a[2], a[3], a[4], a[5])
    \/ \E a \in ReadDbInputs : ReadDbCall(a[1], a[2], a[3])
    \/ \E a \in ReadBitInputs : ReadBitCall(S7_AREA_DB, PlcDb, a[1], a[2])
    \/ RdLoop
    \/ RdPeer
    \/ RdRecv
    \/ \E a \in WriteAreaInputs : WriteAreaCall(a[1], a[2], a[3], a[4], a[5])
    \/ \E a \in WriteDbInputs : WriteDbCall(a[1], a[2], a[3])
    \/ \E a \in WriteBitInputs, v \in BOOLEAN : WriteBitCall(S7_AREA_DB, PlcDb, a[1], a[2], v)
    \/ WrLoop
    \/ WrPeer
    \/ WrRecv

Spec == Init /\ [][Next]_vars

\* The same client with its configuration methods and its rack/slot connect
\* forms, and one call of each read and write form.
NextCfg ==
    \/ \E ct \in ConnectionTypes : SetConnectionTypeCall(ct)
    \/ \E p \in Ports : SetConnectionPortCall(p)
    \/ \E t \in Timeouts : SetTimeoutCall(t[1], t[2], t[3])
    \/ \E a \in RackSlots : ConnectRackSlotCall(a[1], a[2])
    \/ ConnectS71200_1500Call
    \/ ConnectS7300Call
    \/ TcpConnect
    \/ PeerCc
    \/ IsoRecv
    \/ PeerPn
    \/ PnRecv
    \/ Disconnect
    \/ Drop
    \/ ReadAreaCall(S7_AREA_DB, PlcDb, 0, S7_WL_BYTE, 1)
    \/ ReadDbCall(PlcDb, 1, 1)
    \/ ReadBitCall(S7_AREA_DB, PlcDb, 1, 5)
    \/ RdLoop
    \/ RdPeer
    \/ RdRecv
    \/ WriteAreaCall(S7_AREA_DB, PlcDb, 0, S7_WL_BYTE, Ramp(1))
    \/ WriteDbCall(PlcDb, 0, Ramp(1))
    \/ WriteBitCall(S7_AREA_DB, PlcDb, 1, 5, FALSE)
    \/ WrLoop
    \/ WrPeer
    \/ WrRecv

SpecCfg == Init /\ [][NextCfg]_vars

(* ------------------------------------------------------------------ *)
(* Properties                                                          *)
(* ------------------------------------------------------------------ *)
ReadOps == {"read_area", "read_db", "read_bit"}

WriteOps == {"write_area", "write_db", "write_bit"}

BitOps == {"read_bit", "write_bit"}

\* the last public call has returned to its caller
Returned == pc = "idle"

\* C1: a read or write call (the bit forms with bit_idx <= 7) on a session
\* that is not connected returns NotConnected and neither sends nor receives
\* anything.  Fails: in a build with overflow checks read_bit and write_bit
\* compute byte_num * 8 before the connection check and panic for
\* byte_num >= 8192.
C1_NotConnectedNoIo ==
    (/\ op.name \in ReadOps \cup WriteOps
     /\ ~connected
     /\ (op.name \in BitOps => op.args[4] <= 7))
    => (Returned /\ result = "NotConnected" /\ nio = 0)

\* C2: connect_tsap runs TCP connect, CR/CC, PDU negotiation in that order:
\* the negotiation request has been sent only with a CR reply of type CC in
\* hand, connected is true only once connect_tsap has returned Ok with both
\* replies accepted and a stream stored, and a connect_tsap that has failed
\* leaves connected == false.
C2_StagesInOrder ==
    op.name = "connect_tsap" =>
        /\ (request = S7Pn =>
               /\ sock = "open" \/ pc \in {"idle", "panicked"}
               /\ Len(iso_resp) = ISO_CR_LEN
               /\ At(iso_resp, 5) = ISO_CONN_OK)
        /\ (connected =>
               /\ Returned /\ result = "Ok" /\ stream = "Some"
               /\ request = S7Pn
               /\ Len(pn_resp) = ISO_PN_RES_LEN
               /\ At(pn_resp, 0) = ISO_ID /\ At(pn_resp, 7) = S7_ID
               /\ At(pn_resp, 17) = 0
               /\ pdu_length = make_u16(At(pn_resp, 25), At(pn_resp, 26))
               /\ pdu_length # 0)
        /\ (pc \in {"idle", "panicked"} /\ result # "Ok" => ~connected)

\* a connect_tsap on a session that held a stream failed in the negotiation
C2_Witness_FailedReconnect ==
    /\ op.name = "connect_tsap" /\ Returned
    /\ result = "PduNegotiationFailed"
    /\ stream = "Some" /\ ~connected

\* the CR reply / the negotiation reply on the wire is missing or wrong in one
\* of the ways C3 lists
CrReplyBad == Len(rx) < 6 \/ At(rx, 5) # ISO_CONN_OK

PnReplyBad ==
    \/ Len(rx) < ISO_PN_RES_LEN
    \/ At(rx, 0) # ISO_ID \/ At(rx, 7) # S7_ID \/ At(rx, 17) # 0
    \/ make_u16(At(rx, 25), At(rx, 26)) = 0

\* C3 as stated: a missing CR reply or one whose byte 5 is not 0xD0 makes
\* connect_tsap return IsoConnectionFailed; a negotiation reply that is
\* missing, short, wrong in byte 0, 7 or 17, or carries PDU length 0 makes it
\* return PduNegotiationFailed.
C3_StageErrorAlways ==
    [][ /\ (pc = "iso_recv" /\ CrReplyBad
               => pc' = "idle" /\ result' = "IsoConnectionFailed")
        /\ (pc = "pn_recv" /\ PnReplyBad
               => pc' = "idle" /\ result' = "PduNegotiationFailed") ]_vars

\* C3, amended: the same, except that a reply of which nothing arrived gives
\* the stage's error when the read reports the end of the stream and Io when
\* the read itself fails (for one, by timing out).
C3_StageErrorOrIo ==
    [][ /\ (pc = "iso_recv" /\ CrReplyBad
               => /\ pc' = "idle"
                  /\ \/ result' = "IsoConnectionFailed"
                     \/ rx = << >> /\ result' = "Io")
        /\ (pc = "pn_recv" /\ PnReplyBad
               => /\ pc' = "idle"
                  /\ \/ result' = "PduNegotiationFailed"
                     \/ rx = << >> /\ result' = "Io") ]_vars

\* connect_tsap returned Io from the read of a negotiation reply that never came
C3_Witness_PnReadFails ==
    /\ op.name = "connect_tsap" /\ Returned
    /\ result = "Io" /\ request = S7Pn /\ pn_resp = << >>

\* ceil(n / m), for m = 0 a value no chunk count equals
CeilDiv(n, m) == IF n = 0 THEN 0 ELSE IF m = 0 THEN -1 ELSE (n + m - 1) \div m

\* C4: on a connected session, with a peer whose every reply is the
\* well-formed success response and no socket failure, a BYTE read of N bytes
\* returns Ok with chunks = ceil(N / max_rd_pdu_data) and a BYTE write with
\* chunks = ceil(N / max_wr_pdu_data).  Fails: with an accepted PDU length
\* above 480 the well-formed response to a read of more than 462 bytes does
\* not fit the receive buffer.
C4_ChunkCount ==
    (/\ Returned
     /\ op.name \in {"read_area", "read_db", "write_area", "write_db"}
     /\ wordlen = S7_WL_BYTE
     /\ connected /\ honest /\ result # "Io")
    => /\ result = "Ok"
       /\ chunks = CeilDiv(Len(buffer), IF op.name \in ReadOps THEN max_rd_pdu_data
                                        ELSE max_wr_pdu_data)

C6_EveryPositionFilled ==
    (/\ Returned /\ op.name \in {"read_area", "read_db"} /\ result = "Ok"
     /\ wordlen = S7_WL_BYTE)
    => \A i \in 1..Len(buffer) : buffer[i] # Stale

C8_BitIdxRejected ==
    (op.name \in BitOps /\ op.args[4] > 7)
    => (Returned /\ result = "S7InvalidAddress" /\ nio = 0 /\ request = << >>)

\* write_bit with bit_idx 8 was rejected on a connected session
C8_Witness_Connected ==
    /\ op.name = "write_bit" /\ op.args[4] > 7
    /\ connected /\ stream = "Some"
    /\ Returned /\ result = "S7InvalidAddress"

\* C9: on a connected session (here one whose payload sizes are at least 1,
\* so that what fails is the address alone) read_bit and write_bit with
\* bit_idx <= 7 do not abort, every request they send has wordlen BIT, count 1
\* and the address byte_num * 8 + bit_idx, a write request is 36 bytes with
\* transport code 3 and bit count 1, and an Ok return took one chunk.  Fails:
\* byte_num * 8 + bit_idx is computed in 16 bits, so for byte_num >= 8192 the
\* call panics (overflow checks on) or sends the address modulo 65536.
C9_BitRequest ==
    (/\ op.name \in BitOps /\ connected /\ op.args[4] <= 7
     /\ max_rd_pdu_data >= 1 /\ max_wr_pdu_data >= 1)
    => /\ pc # "panicked"
       /\ (request # << >> =>
              /\ ReqWordlen(request) = S7_WL_BIT
              /\ ReqCount(request) = 1
              /\ ReqAddress(request) = op.args[3] * 8 + op.args[4]
              /\ (op.name = "write_bit" =>
                     /\ Len(request) = 36
                     /\ At(request, 32) = TS_RES_BIT
                     /\ make_u16(At(request, 33), At(request, 34)) = 1))
       /\ (Returned /\ result = "Ok" => chunks = 1)

\* C10: for a response that passed framing the byte at offset 14 decides the
\* chunk: 0xFF and the loop goes on, 0x0A and the call returns S7NotFound,
\* 0x05 S7InvalidAddress, anything else S7Unspecified.  Fails: after 0xFF a
\* BIT read into an empty buffer aborts in the payload copy.
C10_ResultByteDecides ==
    [][ (pc \in {"rd_recv", "wr_recv"} /\ framed') =>
          LET code == At(response', RW_RES_OFFSET) IN
          /\ (code = RES_SUCCESS =>
                 /\ pc' = (IF pc = "rd_recv" THEN "rd_loop" ELSE "wr_loop")
                 /\ result' = result)
          /\ (code = RES_NOT_FOUND => pc' = "idle" /\ result' = "S7NotFound")
          /\ (code = RES_INVALID_ADDRESS => pc' = "idle" /\ result' = "S7InvalidAddress")
          /\ (code \notin {RES_SUCCESS, RES_NOT_FOUND, RES_INVALID_ADDRESS}
                 => pc' = "idle" /\ result' = "S7Unspecified") ]_vars

\* the 7-byte prefix on the wire has the header check_iso_packet requires
PrefixArrived == pc \in {"rd_recv", "wr_recv"} /\ Len(rx) >= TPKT_ISO_LEN

HeaderValid == At(rx, 0) = ISO_ID /\ At(rx, 4) = 2 /\ At(rx, 5) = 240

\* the End-Of-Transmission bit, the high bit of byte 6
EotBitSet == At(rx, 6) >= EOT

DeclaredLength == make_u16(At(rx, 2), At(rx, 3))

\* C11: for a prefix with a valid header, check_iso_packet returns
\* IsoFragmentedPacket if and only if the high bit of byte 6 is clear.
\* Fails: the code compares the whole byte with 0x80, so a byte 6 with the
\* high bit and another bit set is rejected as fragmented.
C11_FragmentedIffEotClear ==
    [][ (PrefixArrived /\ HeaderValid)
           => ((result' = "IsoFragmentedPacket") <=> ~EotBitSet) ]_vars

\* C12: for a prefix with a valid header and the EOT bit set,
\* check_iso_packet returns IsoInvalidTelegram exactly when the declared
\* length L has L < 7, L - 7 = 0 or L - 7 > pdu_length, and Ok(L - 7) with
\* L - 7 in 1..pdu_length otherwise; a wrong header gives IsoInvalidHeader
\* whatever byte 6 and L are.  (s7_comm_size is 0 until check_iso_packet has
\* returned Ok.)  Fails: with byte 6 = 0x81 and a good length the code returns
\* IsoFragmentedPacket.
C12_LengthDecides ==
    [][ PrefixArrived =>
          IF ~HeaderValid
          THEN pc' = "idle" /\ result' = "IsoInvalidHeader"
          ELSE EotBitSet =>
                 LET L == DeclaredLength IN
                 IF L < TPKT_ISO_LEN \/ L - TPKT_ISO_LEN = 0
                    \/ L - TPKT_ISO_LEN > pdu_length
                 THEN pc' = "idle" /\ result' = "IsoInvalidTelegram"
                      /\ s7_comm_size' = 0
                 ELSE /\ s7_comm_size' = L - TPKT_ISO_LEN
                      /\ s7_comm_size' \in 1..pdu_length ]_vars

\* C13: disconnect on a session that is not connected changes nothing of the
\* session, disconnect always returns with connected == false (so a second
\* disconnect changes nothing either), and the read or write call that
\* follows a disconnect (the bit forms with bit_idx <= 7) returns
\* NotConnected.  Fails: read_bit and write_bit with byte_num >= 8192 panic
\* in a build with overflow checks before the connection check.
C13_DisconnectIdempotent ==
    [][ /\ (pc = "idle" /\ op'.name = "disconnect") =>
              /\ pc' = "idle" /\ ~connected'
              /\ (~connected => UNCHANGED session)
        /\ (/\ pc = "idle" /\ op.name = "disconnect"
            /\ op'.name \in ReadOps \cup WriteOps
            /\ (op'.name \in BitOps => op'.args[4] <= 7))
           => (pc' = "idle" /\ result' = "NotConnected") ]_vars

\* C14: once disconnect has returned the session holds no TCP endpoint.
\* Fails: a connect_tsap that fails on a connected session leaves the old
\* stream in place with connected == false, and disconnect then does nothing.
C14_NoEndpointAfterDisconnect ==
    (op.name = "disconnect" /\ Returned) => stream = "None"

\* C15: a session never has two TCP endpoints open at once.  Fails:
\* connect_tsap on a session that holds a stream opens the new endpoint while
\* the old one is still held, and replaces it only on success.
C15_AtMostOneEndpoint == ~(stream = "Some" /\ sock = "open")

\* C16: when connect_tsap or a read or write call has returned an error,
\* last_time is 0.  Fails: read_bit and write_bit with bit_idx > 7 return
\* before last_time is touched.
C16_ErrorResetsLastTime ==
    (/\ Returned /\ result # "Ok"
     /\ op.name \in {"connect_tsap"} \cup ReadOps \cup WriteOps)
    => last_time = 0

\* C19: a successful connect_tsap returns (it does not panic) with
\* pdu_length equal to the big-endian word at bytes 25..26 of the
\* negotiation reply, max_rd_pdu_data = pdu_length - 18 and
\* max_wr_pdu_data = pdu_length - 28.
C19_PayloadSizes ==
    /\ (op.name = "connect_tsap" /\ pn_resp # << >>
          /\ make_u16(At(pn_resp, 25), At(pn_resp, 26)) > 0)
        => pc # "panicked"
    /\ (op.name = "connect_tsap" /\ Returned /\ result = "Ok")
        => /\ pdu_length = make_u16(At(pn_resp, 25), At(pn_resp, 26))
           /\ max_rd_pdu_data = pdu_length - 18
           /\ max_wr_pdu_data = pdu_length - 28

RackOps == {"connect_rack_slot", "connect_s71200_1500", "connect_s7300"}

\* bitwise OR of two naturals
RECURSIVE BitOr(_, _)
BitOr(a, b) ==
    IF a = 0 THEN b
    ELSE IF b = 0 THEN a
    ELSE (IF a % 2 = 1 \/ b % 2 = 1 THEN 1 ELSE 0) + 2 * BitOr(a \div 2, b \div 2)

\* C17: connect_rack_slot and its two forms never stop before the connection
\* attempt, and the CR they send carries local TSAP 0x0100 and remote TSAP
\* (conn_type << 8) | (rack*0x20 + slot) as a 16-bit word; with the default
\* connection type connect_s71200_1500 sends 0x0100 and connect_s7300 0x0102.
\* Fails: the code adds the three terms in u16 instead of or-ing them.
C17_RemoteTsapIsOr ==
    /\ (op.name \in RackOps) => ~(pc = "panicked" /\ nio = 0)
    /\ (op.name \in RackOps /\ pc = "iso_peer")
        => request = IsoCr(256, BitOr((conn_type * 256) % 65536,
                                      (op.args[3] * 32 + op.args[4]) % 65536))
    /\ (op.name = "connect_s71200_1500" /\ pc = "iso_peer" /\ conn_type = CT_PG)
        => (At(request, 20) = 1 /\ At(request, 21) = 0)
    /\ (op.name = "connect_s7300" /\ pc = "iso_peer" /\ conn_type = CT_PG)
        => (At(request, 20) = 1 /\ At(request, 21) = 2)

\* a step that is a call of the set_* method `name`
SetterStep(name) == pc = "idle" /\ op'.name = name

\* what set_timeout and set_connection_port do, in both readings of C18
PortAndTimeoutsRejectZero ==
    /\ SetterStep("set_connection_port")
        => /\ port' = IF op'.args[1] = 0 THEN port ELSE op'.args[1]
           /\ UNCHANGED << conn_type, co_timeout_ms, rd_timeout_ms, wr_timeout_ms >>
    /\ SetterStep("set_timeout")
        => /\ co_timeout_ms' = IF op'.args[1] = 0 THEN co_timeout_ms ELSE op'.args[1]
           /\ rd_timeout_ms' = IF op'.args[2] = 0 THEN rd_timeout_ms ELSE op'.args[2]
           /\ wr_timeout_ms' = IF op'.args[3] = 0 THEN wr_timeout_ms ELSE op'.args[3]
           /\ UNCHANGED << conn_type, port >>

\* C18 as stated: every set_* method silently rejects a zero value:
\* set_connection_type(0) leaves conn_type unchanged, set_connection_port(0)
\* leaves the port unchanged, and each zero argument of set_timeout leaves
\* its own timeout unchanged while the non-zero arguments are applied.
C18_ZeroRejectedByAll ==
    [][ /\ PortAndTimeoutsRejectZero
        /\ SetterStep("set_connection_type")
            => /\ conn_type' = IF op'.args[1] = 0 THEN conn_type ELSE op'.args[1]
               /\ UNCHANGED config ]_vars

\* C18, amended: set_connection_port and set_timeout reject a zero value as
\* stated; set_connection_type stores whatever it is given, zero included.
C18_ZeroRejectedByPortAndTimeout ==
    [][ /\ PortAndTimeoutsRejectZero
        /\ SetterStep("set_connection_type")
            => /\ conn_type' = op'.args[1]
               /\ UNCHANGED config ]_vars

\* set_timeout(0, 2000, 0) was the last call, on a client whose connection
\* type had been set to 0 and whose port had been offered 0
C18_Witness_ZerosOffered ==
    /\ op.name = "set_timeout" /\ op.args = << 0, 2000, 0 >>
    /\ co_timeout_ms = 3000 /\ rd_timeout_ms = 2000 /\ wr_timeout_ms = 500
    /\ conn_type = 0
    /\ port = 102

SetOps == {"set_connection_type", "set_connection_port", "set_timeout"}

\* C20: pdu_length, max_rd_pdu_data and max_wr_pdu_data change only in the
\* step of a connect call that evaluates the negotiation reply; no step of a
\* read, a write, disconnect or a set_* method changes any of them, whether
\* the call succeeds or fails.
C20_PduWrittenOnlyByHandshake ==
    [][ /\ (\/ pdu_length' # pdu_length
            \/ max_rd_pdu_data' # max_rd_pdu_data
            \/ max_wr_pdu_data' # max_wr_pdu_data)
           => (pc = "pn_recv" /\ op.name \in RackOps \cup {"connect_tsap"})
        /\ (op'.name \in ReadOps \cup WriteOps \cup SetOps \cup {"disconnect"})
           => UNCHANGED << pdu_length, max_rd_pdu_data, max_wr_pdu_data >> ]_vars

\* a set_* method has returned on a client that still holds the sizes of an
\* earlier negotiation (PDU length 240, then disconnect)
C20_Witness_SetterAfterNegotiation ==
    /\ op.name \in SetOps
    /\ Returned
    /\ pdu_length = 240
    /\ max_rd_pdu_data = 222
    /\ max_wr_pdu_data = 212

\* a request of the chunk loop is out and its response not yet evaluated
ChunkInFlight == pc \in {"rd_peer", "rd_recv", "wr_peer", "wr_recv"}

\* C21: on a session whose handshake accepted the PDU length, every
\* iteration of the chunk loop of read_area and write_area makes progress
\* (chunk_size >= 1), so a call sends at most datasize requests and returns.
\* Fails: a PDU length of 28 leaves max_wr_pdu_data = 0 (18 leaves
\* max_rd_pdu_data = 0 where the subtraction wraps), chunk_size is 0 and
\* offset never moves.
C21_ChunkLoopProgress ==
    /\ ChunkInFlight => chunk_size >= 1
    /\ (ChunkInFlight \/ pc \in {"rd_loop", "wr_loop"}) => chunks <= datasize

\* a step of the chunk loop that sends the next request
RequestSent == pc \in {"rd_loop", "wr_loop"} /\ pc' \in {"rd_peer", "wr_peer"}

\* the bytes of the range, counted from its start, that the requests up to
\* and including req have covered, as read off the wire
Covered(req) == IF req = << >> THEN 0 ELSE ReqAddress(req) \div 8 - start + ReqCount(req)

\* C22: in a BYTE read or write of N = min(buffer.len(), 65535) bytes from s the
\* chunks tile the range: each request carries min(remaining, max_*_pdu_data)
\* elements and the wire address (s + bytes covered so far) << 3, a write
\* request carries the caller's bytes from that offset, a read copies the
\* payload to that offset and touches nothing else, and a call that returns
\* Ok has covered exactly N bytes.
C22_ChunksTileRange ==
    [][ (wordlen = S7_WL_BYTE) =>
        /\ RequestSent =>
             LET done == Covered(request)
                 max  == IF pc = "rd_loop" THEN max_rd_pdu_data ELSE max_wr_pdu_data
             IN  /\ ReqCount(request') = Min(Min(Len(buffer), U16_MAX) - done, max)
                 /\ ReqAddress(request') = (start + done) * 8
                 /\ pc = "wr_loop" =>
                      ReqData(request') = Slice(buffer, done, ReqCount(request'))
        /\ (pc = "rd_recv" /\ pc' = "rd_loop") =>
             LET done == Covered(request) - ReqCount(request)
                 plen == Min(size_resp' - READ_RES_LEN, ReqCount(request))
             IN  /\ Len(buffer') = Len(buffer)
                 /\ \A i \in 1..Len(buffer) :
                      IF i > done /\ i <= done + plen
                      THEN buffer'[i] = response'[READ_RES_LEN + i - done]
                      ELSE buffer'[i] = buffer[i]
        /\ (pc \in {"rd_loop", "wr_loop"} /\ pc' = "idle" /\ result' = "Ok") =>
             Covered(request) = Min(Len(buffer), U16_MAX) ]_vars

\* read_area of 2 bytes from start 1 has returned Ok after two chunks
C22_Witness_TwoChunksFromOne ==
    /\ op.name = "read_area" /\ wordlen = S7_WL_BYTE
    /\ Returned /\ result = "Ok"
    /\ start = 1 /\ chunks = 2
    /\ Covered(request) = 2
    /\ buffer = Slice(InitMem, 1, 2)

\* the step that evaluates the response to the request in flight
ResponseEvaluated == pc \in {"rd_recv", "wr_recv"} /\ pc' # pc

\* the response just evaluated passed framing and carried result 0xFF
ChunkSucceeded(fr, resp) == fr /\ At(resp, RW_RES_OFFSET) = RES_SUCCESS

\* C23: within one read_area or write_area call the requests are serial and
\* never retried: every request after the first is sent only after the
\* response to the one before was received, passed framing and carried 0xFF,
\* and it is a further chunk (chunks grows by one); a response that fails
\* ends the call with its error, no request following.
C23_SerialNoRetry ==
    [][ /\ RequestSent =>
             /\ chunks' = chunks + 1
             /\ (chunks > 0) => ChunkSucceeded(framed, response)
        /\ (ResponseEvaluated /\ ~ChunkSucceeded(framed', response')) =>
             /\ pc' = "idle"
             /\ result' \notin {"Ok", "none"}
             /\ request' = request
             /\ chunks' = chunks
        /\ (pc = "idle" /\ pc' \in {"rd_peer", "wr_peer"}) => FALSE ]_vars

\* a read call in two chunks ended with the peer's error for the second
C23_Witness_SecondChunkFails ==
    /\ op.name = "read_area"
    /\ Returned
    /\ result = "S7InvalidAddress"
    /\ pdu_length = 240
    /\ chunks = 2
    /\ offset = max_rd_pdu_data

ConnectOps == RackOps \cup {"connect_tsap"}

\* C24: no step of a read or write call changes connected or the stream the
\* session owns, so a call that returns an error of any kind leaves the
\* session connected; connected falls, and the stream is given up, only in a
\* step of disconnect, of drop or of a connect call.
C24_ErrorKeepsConnection ==
    [][ /\ (op'.name \in ReadOps \cup WriteOps) => UNCHANGED << connected, stream >>
        /\ (connected /\ ~connected') =>
             (pc = "idle" /\ op'.name \in ConnectOps \cup {"disconnect", "drop"})
        /\ (stream = "Some" /\ stream' = "None") =>
             (pc = "idle" /\ op'.name \in {"disconnect", "drop"}) ]_vars

\* a write call has returned a framing error on a session that is still
\* connected and still holds its stream
C24_Witness_FramingErrorConnected ==
    /\ op.name \in WriteOps
    /\ Returned
    /\ result = "IsoInvalidTelegram"
    /\ connected
    /\ stream = "Some"

\* C25: a complete, well-formed reply (every reply of a PLC is one) that the
\* transport delivers in more than one piece is still read whole: against a
\* PLC no connect, read or write call fails with IsoInvalidTelegram,
\* IsoConnectionFailed or PduNegotiationFailed.  Fails: each reply body is
\* taken with a single stream.read, and what the first piece lacks counts as
\* truncation.
C25_PiecewiseDeliveryTolerated ==
    (/\ peer = "plc"
     /\ Returned
     /\ op.name \in ConnectOps \cup ReadOps \cup WriteOps)
    => result \notin {"IsoInvalidTelegram", "IsoConnectionFailed", "PduNegotiationFailed"}

\* C26: on every session the handshake accepted, the receive capacity of
\* read_area and write_area ([0u8; PDU_LEN_REQ]) is at least pdu_length, and a
\* call whose replies were all well-formed, complete, handed over as far as
\* they fit and passed check_iso_packet is never rejected for length.
\* Fails: the capacity is the requested 480 bytes whatever the peer negotiated.
C26_ReceiveCapacity ==
    /\ connected => PDU_LEN_REQ >= pdu_length
    /\ (/\ Returned /\ op.name \in ReadOps \cup WriteOps
        /\ honest
        /\ s7_comm_size \in 1..pdu_length)
        => result # "IsoInvalidTelegram"

\* C27: every slice of the caller's buffer that read_area and write_area take
\* lies within 0..buffer.len(): the chunk buffer[offset..offset + chunk_size]
\* of a write request, and the target buffer[offset..offset + payload.len()]
\* of a read's copy.  Fails: a wordlen other than BYTE makes datasize 1 even
\* for an empty buffer.
C27_BufferAccessInBounds ==
    [][ /\ (pc = "wr_loop" /\ chunks' = chunks + 1) =>
             /\ offset + chunk_size' <= Len(buffer)
             /\ pc' # "panicked"
        /\ (pc = "rd_recv" /\ ChunkSucceeded(framed', response')) =>
             /\ offset + Min(size_resp' - READ_RES_LEN, chunk_size) <= Len(buffer)
             /\ pc' # "panicked" ]_vars

\* C28: whatever public methods were called, a session with connected = TRUE
\* holds a stream, so self.stream.as_mut().unwrap() in read_area, write_area
\* and disconnect never meets None.
C28_ConnectedHoldsStream == connected => stream = "Some"

\* a read call has looked the stream up and returned Ok
C28_Witness_LookupDone ==
    /\ op.name \in ReadOps
    /\ Returned /\ result = "Ok"
    /\ chunks >= 1
    /\ connected
    /\ stream = "Some"

\* C29: no request exceeds the negotiated PDU: the TPKT length field of every
\* write request is 35 + chunk_size and its S7 part (that length - 7) is at
\* most pdu_length, and for every read request the expected response size
\* 18 + chunk_size is at most pdu_length.  Fails where max_rd_pdu_data or
\* max_wr_pdu_data is a wrapped difference.
C29_RequestWithinPdu ==
    /\ pc = "wr_peer" =>
         /\ make_u16(At(request, 2), At(request, 3)) = 35 + chunk_size
         /\ 35 + chunk_size - TPKT_ISO_LEN <= pdu_length
    /\ pc = "rd_peer" => READ_RES_LEN + chunk_size <= pdu_length

====
